---- MODULE Spec2Model ----
(***************************************************************************)
(* pdf2skill-lite: the document-to-skill-pack compiler of src/index.js and *)
(* the upload front-end of src/unnamed/part_001 (server.js).               *)
(*                                                                         *)
(* The module holds several specifications over one set of variables, one  *)
(* per part of the compiler:                                               *)
(*   SpecChunk    splitSemanticBlocks, chunkBlocks and the length filter   *)
(*                of run (index.js 142-186, 500-506), loop by loop;        *)
(*   SpecKeywords detectLanguage, tokenize, topKeywords (188-226);         *)
(*   SpecScore    estimateRoutingScore (260-271);                          *)
(*   SpecDeps     jaccard, buildDependencies, buildRoutesJson (273-313);   *)
(*   SpecSteps    extractSteps and STEP_PATTERNS (108-111, 228-244);       *)
(*   Spec         run as a whole against the file system, one invocation   *)
(*                after another (465-611), and the front-end's handler;    *)
(*   SpecConcurrent  the same steps of run, two invocations of one name    *)
(*                at the same time.                                        *)
(* A specification leaves the variables of the other parts untouched.      *)
(*                                                                         *)
(* Text is modelled at the grain the code reads it at.  The chunker reads  *)
(* of a paragraph only its whitespace-delimited word count and its         *)
(* non-whitespace character count, so a paragraph is the record            *)
(* [words, chars]; a chunk, which the code builds by joining blocks with   *)
(* a blank line, is the sequence of its blocks.  The tokenizer reads       *)
(* characters, so there a text is a sequence of characters.                *)
(***************************************************************************)
EXTENDS Integers, Sequences, FiniteSets, TLC

\* ------------------------------------------------------------------ bounds
\* Longest input text of the chunker, in paragraphs.
MaxParas == 4
\* The reduction loop of chunkBlocks does not end for a negative maxChunks;
\* the model follows it for this many pushes.
MaxReduced == 3

\* Longest text of the keyword specification given character by character.
MaxTextLen == 4
\* Most words of a long text of the keyword specification (at most 27), and
\* how many of them are said twice.
MaxWords == 14
MaxRepeats == 2

\* Most items of the graph specification.
MaxItems == 3
\* Most filler lines in front of the lines extractSteps is followed on.
MaxStepLines == 7

\* ------------------------------------------------------- program constants
targetMinWords == 140
targetMaxWords == 280
\* splitSemanticBlocks keeps a block of at least this many non-space chars.
minBlockChars == 40
\* run keeps a chunk of more than this many non-space chars.
clipChars == 80
\* parseArgs' default for --max-chunks.
defaultMaxChunks == 24

\* The limit run passes to topKeywords.
keywordLimit == 12

\* The caps of extractSteps and extractConditions.
stepLimit == 8
conditionLimit == 8
\* run scores an item against its first probeSize keywords.
probeSize == 5

\* ----------------------------------------------------------------- helpers
Min(a, b) == IF a < b THEN a ELSE b
Max(a, b) == IF a > b THEN a ELSE b

RECURSIVE Flatten(_)
\* Array.prototype.join("\n\n") over chunks: a chunk is the sequence of its
\* blocks, so joining chunks concatenates them.
Flatten(ss) == IF ss = <<>> THEN <<>> ELSE Head(ss) \o Flatten(Tail(ss))

RECURSIVE SumChars(_)
\* x.replace(/\s+/g, "").length of a chunk: the separators are whitespace.
SumChars(chunk) ==
  IF chunk = <<>> THEN 0 ELSE Head(chunk).chars + SumChars(Tail(chunk))

\* Array.prototype.slice(start, end) with JavaScript's treatment of negative
\* and out-of-range indices.
JsSlice(s, start, end) ==
  LET n    == Len(s)
      from == IF start < 0 THEN Max(n + start, 0) ELSE Min(start, n)
      to   == IF end < 0 THEN Max(n + end, 0) ELSE Min(end, n)
  IN  IF from < to THEN SubSeq(s, from + 1, to) ELSE <<>>

\* Math.ceil(a / b) for a >= 0 and b # 0 (b = 0 gives Infinity and is
\* handled where it is used).  For b < 0 the quotient is <= 0 and its
\* ceiling is -floor(a / |b|); JavaScript's -0 behaves as 0 in +=.
CeilDiv(a, b) ==
  IF b > 0 THEN (a + b - 1) \div b ELSE 0 - (a \div (0 - b))

\* -------------------------------------------------------------- characters
\* Characters.  A text is a sequence of characters; the alphabet holds
\* lower-case Latin letters, one upper-case letter, a digit, two CJK
\* ideographs (U+6211, U+4EEC: the two characters of the stopword "we") and
\* the space.
ZhWo == "U+6211"
ZhMen == "U+4EEC"
LowerLetters == {"a", "n", "d", "c"}
UpperLetters == {"A"}
Digits == {"7"}
Ideographs == {ZhWo, ZhMen}
Alphabet == LowerLetters \cup UpperLetters \cup Digits \cup Ideographs \cup {" "}

\* The character classes of the regular expressions.
ClassLatin == LowerLetters \cup Digits                   \* [a-z0-9]
ClassLetter == LowerLetters \cup UpperLetters            \* [A-Za-z]
ClassCJK == Ideographs                                   \* [一-龥]

\* String.prototype.toLowerCase, character by character.
ToLowerChar(c) == IF c = "A" THEN "a" ELSE c
toLowerCase(t) == [k \in 1..Len(t) |-> ToLowerChar(t[k])]

\* ------------------------------------------------------------------ inputs
\* Paragraphs of a normalized text, by word count and non-space character
\* count.  A word has at least one character, so chars >= words.
ParagraphChoices ==
  { [words |-> 1, chars |-> 30],
    [words |-> 1, chars |-> 50],
    [words |-> targetMinWords - 1, chars |-> targetMinWords - 1],
    [words |-> targetMinWords, chars |-> targetMinWords],
    [words |-> targetMaxWords - targetMinWords + 1,
     chars |-> targetMaxWords - targetMinWords + 1],
    [words |-> targetMaxWords + 1, chars |-> targetMaxWords + 1] }

\* Values of --max-chunks: parseArgs and the front-end forward any integer.
CeilingChoices == {-2, -1, 0, 1, 2, 3, defaultMaxChunks}

SeqsUpTo(S, n) == UNION { [1..k -> S] : k \in 0..n }

\* --------------------------------------------------------------- variables
VARIABLES
  cpc,            \* chunker: position in run lines 500-506 / chunkBlocks
  paragraphs,     \* chunker: the normalized text, split on blank lines
  maxChunks,      \* chunker: chunkBlocks' second argument
  blocks,         \* chunker: splitSemanticBlocks' result
  bi,             \* chunker: index of the next block of the for-of loop
  chunks,         \* chunker: raw chunks
  current,        \* chunker: the accumulator
  currentWords,   \* chunker: the accumulator's word count
  reduced,        \* chunker: groups pushed by the reduction loop
  ri,             \* chunker: the reduction loop's i
  returned,       \* chunker: chunkBlocks' return value
  clippedChunks,  \* chunker: chunks that pass run's length filter
  indexRows,      \* chunker: item rows of skills/index.md
  kpc,            \* keywords: position in topKeywords
  text,           \* keywords: the chunk's text, a sequence of characters
  langMode,       \* keywords: the caller's language mode
  tokens,         \* keywords: tokenize's result
  keywords,       \* keywords: topKeywords' result
  spc,            \* score: position in the scoring of one item
  item,           \* score: the item's keywords, steps and conditions
  baseScore,      \* score: estimateRoutingScore's result
  dpc,            \* graph: position in run lines 528-574
  skillItems,     \* graph: the items, each with its id and keywords
  dependencies,   \* graph: buildDependencies' result
  routes,         \* graph: the dependencies member of skills/routes.json
  xpc,            \* steps: position in extractSteps
  lines,          \* steps: text.split("\n"), each line a sequence of characters
  li,             \* steps: index of the next line of the for-of loop
  out,            \* steps: the values pushed so far
  steps,          \* steps: extractSteps' return value
  inv,            \* run: the invocations, each with its inputs and locals
  outDirs,        \* run: the folders of the output directory, by skill name
  outZips         \* run: the zip files of the output directory, by skill name

chunkVars == <<cpc, paragraphs, maxChunks, blocks, bi, chunks, current,
               currentWords, reduced, ri, returned, clippedChunks, indexRows>>

kwVars == <<kpc, text, langMode, tokens, keywords>>

scoreVars == <<spc, item, baseScore>>

depVars == <<dpc, skillItems, dependencies, routes>>

stepVars == <<xpc, lines, li, out, steps>>

runVars == <<inv, outDirs, outZips>>

vars == <<chunkVars, kwVars, scoreVars, depVars, stepVars, runVars>>

\* The variables of the parts a specification does not run stay as they are.
ChunkOnly == UNCHANGED <<kwVars, scoreVars, depVars, stepVars, runVars>>
KeywordsOnly == UNCHANGED <<chunkVars, scoreVars, depVars, stepVars, runVars>>
ScoreOnly == UNCHANGED <<chunkVars, kwVars, depVars, stepVars, runVars>>
DepsOnly == UNCHANGED <<chunkVars, kwVars, scoreVars, stepVars, runVars>>
RunOnly == UNCHANGED <<chunkVars, kwVars, scoreVars, depVars, stepVars>>
StepsOnly == UNCHANGED <<chunkVars, kwVars, scoreVars, depVars, runVars>>

\* ---------------------------------------------------------------- chunker
\* Mutant: the length filter is left out.
splitSemanticBlocks_Unfiltered(paras) ==
  SelectSeq(paras, LAMBDA p : p.chars > 0)

\* splitSemanticBlocks: the paragraphs with at least 40 non-space chars.
splitSemanticBlocks(paras) ==
  SelectSeq(paras, LAMBDA p : p.chars > 0 /\ p.chars >= minBlockChars)

\* Mutant: the accumulator is closed only once it is past the target minimum.
ClosesChunk_Late(cur, curWords, words) ==
  /\ Len(cur) > 0
  /\ (curWords + words > targetMaxWords \/ curWords > targetMinWords)

\* The condition of the if in chunkBlocks' for-of loop.
ClosesChunk(cur, curWords, words) ==
  /\ Len(cur) > 0
  /\ (curWords + words > targetMaxWords \/ curWords >= targetMinWords)

\* Mutant: the comparison of the early return is reversed.
FitsCeiling_Reversed(rawCount, m) == rawCount >= m

\* The early return of line 176: the raw chunks already fit the ceiling.
FitsCeiling(rawCount, m) == rawCount <= m

\* Mutant: the quotient is rounded down (and is at least 1).
Ratio_Floor(rawCount, m) == Max(1, rawCount \div m)

\* The ratio of the reduction loop; maxChunks = 0 makes it Infinity, which the
\* loop treats as "one group of everything" (see ReduceStep).
Ratio(rawCount, m) == CeilDiv(rawCount, m)

\* The body of chunkBlocks' for-of loop (lines 160-170) on the accumulator
\* acc = [chunks, current, currentWords].
PackOne(acc, block) ==
  LET words == block.words
      close == ClosesChunk(acc.current, acc.currentWords, words)
  IN  [chunks |-> IF close THEN Append(acc.chunks, acc.current) ELSE acc.chunks,
       current |-> Append(IF close THEN <<>> ELSE acc.current, block),
       currentWords |-> (IF close THEN 0 ELSE acc.currentWords) + words]

\* The flush of lines 172-174.
RawChunks(acc) ==
  IF Len(acc.current) > 0 THEN Append(acc.chunks, acc.current) ELSE acc.chunks

\* The group the reduction loop pushes at index i (line 183).
Group(cs, i, ratio) == Flatten(JsSlice(cs, i, i + ratio))

RECURSIVE PackAll(_, _)
\* The for-of loop as a whole.
PackAll(bs, acc) ==
  IF bs = <<>> THEN acc ELSE PackAll(Tail(bs), PackOne(acc, Head(bs)))

RECURSIVE ReduceAll(_, _, _)
\* The reduction loop as a whole, for a ratio of at least 1.
ReduceAll(cs, i, ratio) ==
  IF i >= Len(cs) THEN <<>>
  ELSE <<Group(cs, i, ratio)>> \o ReduceAll(cs, i + ratio, ratio)

\* chunkBlocks (lines 152-186) as one function, for maxChunks >= 1, which
\* is what the specification of run passes; SpecChunk follows the same
\* code loop by loop, for every maxChunks.
chunkBlocks(bs, m) ==
  LET raw == RawChunks(PackAll(bs, [chunks |-> <<>>, current |-> <<>>,
                                    currentWords |-> 0]))
  IN  IF FitsCeiling(Len(raw), m) THEN raw
      ELSE JsSlice(ReduceAll(raw, 0, Ratio(Len(raw), m)), 0, m)

\* run's second-stage filter.
ClipChunks(cs) == SelectSeq(cs, LAMBDA c : SumChars(c) > clipChars)

\* The id of the item built from the chunk at 0-based index idx.
ItemId(idx) == idx + 1

\* buildIndexMd: one table row per item, in order.
buildIndexMd(cs) == [k \in 1..Len(cs) |-> ItemId(k - 1)]

\* ------------------------------------------------- names, files, sinks
\* slugify (index.js 113-120) and sanitizeSkillName (server 30-37), which
\* is the same chain of replacements.  A name is a sequence of characters.
IsSlugChar(c) == c \in ClassLatin \cup ClassCJK          \* [a-z0-9一-龥]

RECURSIVE TrimLeft(_)
TrimLeft(n) == IF n # <<>> /\ Head(n) = " " THEN TrimLeft(Tail(n)) ELSE n

RECURSIVE TrimRight(_)
TrimRight(n) ==
  IF n # <<>> /\ n[Len(n)] = " " THEN TrimRight(SubSeq(n, 1, Len(n) - 1)) ELSE n

\* String.prototype.trim.
Trim(n) == TrimRight(TrimLeft(n))

RECURSIVE ReplaceRuns(_, _, _)
\* n.replace(/[class]+/g, "-") where inClass[c] says whether c is in the
\* class: each run of class characters becomes one hyphen.  inRun says
\* that the character before was replaced.
ReplaceRuns(n, inClass, inRun) ==
  IF n = <<>> THEN <<>>
  ELSE IF inClass[Head(n)]
       THEN (IF inRun THEN <<>> ELSE <<"-">>) \o ReplaceRuns(Tail(n), inClass, TRUE)
       ELSE <<Head(n)>> \o ReplaceRuns(Tail(n), inClass, FALSE)

\* n.replace(/^-|-$/g, ""): one hyphen off each end.
StripEnds(n) ==
  LET a == IF n # <<>> /\ Head(n) = "-" THEN Tail(n) ELSE n
  IN  IF a # <<>> /\ a[Len(a)] = "-" THEN SubSeq(a, 1, Len(a) - 1) ELSE a

NameChars == {"a", "A", "!", "-", " "}

\* Mutant: the name is passed on as given, trimmed and lower-cased.
slugify_Unreplaced(name) == toLowerCase(Trim(name))

slugify(name) ==
  LET lower == toLowerCase(Trim(name))
      dashed == ReplaceRuns(lower, [c \in NameChars |-> ~IsSlugChar(c)], FALSE)
      single == ReplaceRuns(dashed, [c \in NameChars |-> c = "-"], FALSE)
  IN  StripEnds(single)

\* The names given with --name or in the upload form: "A!a" and " a-a"
\* (both sanitized to "a-a"), "!!" (sanitized to the empty name) and "A".
RawNames ==
  { <<"A", "!", "a">>, <<" ", "a", "-", "a">>, <<"!", "!">>, <<"A">> }

Slugs == { slugify(n) : n \in RawNames }

\* The normalized texts of the run specification: no text; three paragraphs
\* of 30 characters; one paragraph of 50; one of 139 words; two of 140
\* words around one of 30 characters.
P30 == [words |-> 1, chars |-> 30]
P50 == [words |-> 1, chars |-> 50]
P139 == [words |-> targetMinWords - 1, chars |-> targetMinWords - 1]
P140 == [words |-> targetMinWords, chars |-> targetMinWords]
DocChoices ==
  { <<>>, <<P30, P30, P30>>, <<P50>>, <<P139>>, <<P140, P30, P140>> }

\* The values of --max-chunks of the run specification.
RunCeilings == {1, defaultMaxChunks}

\* The invocations: processes started from the command line or by a request
\* to the front-end.
Procs == {1, 2}

\* A file of the manifest and what a sink holds of it.  Both sinks get the
\* string content and store its UTF-8 encoding (fs.writeFileSync with
\* "utf8"; JSZip encodes a string entry as UTF-8 and DEFLATE gives the
\* bytes back).
File(path, content) == [relativePath |-> path, content |-> content]
Content(kind, name, ids, body) ==
  [kind |-> kind, name |-> name, ids |-> ids, body |-> body]
Utf8(content) == [utf8 |-> content]

\* run lines 508-526 at the grain of this specification: an item is its id
\* and its chunk.
BuildItems(clipped) ==
  [k \in 1..Len(clipped) |-> [id |-> ItemId(k - 1), content |-> clipped[k]]]

\* run lines 532-593: the manifest, in the order it is pushed.  A content
\* holds what its builder reads at this grain: the skill name, the item ids
\* in order, a chunk or the normalized text (which is far below the 120000
\* characters source_excerpt.md is cut at).
BuildManifest(skillName, items, normalized) ==
  LET ids == buildIndexMd(items)
  IN  << File(<<"SKILL.md">>, Content("SKILL.md", skillName, ids, <<>>)),
         File(<<"README.md">>, Content("README.md", skillName, <<>>, <<>>)),
         File(<<"skills", "index.md">>, Content("index.md", <<>>, ids, <<>>)),
         File(<<"skills", "dependency-graph.md">>,
              Content("dependency-graph.md", <<>>, ids, <<>>)),
         File(<<"skills", "routes.json">>, Content("routes.json", <<>>, ids, <<>>)) >>
      \o [k \in 1..Len(items) |->
            File(<<"skills", "skill", items[k].id>>,
                 Content("skill.md", <<>>, <<items[k].id>>, items[k].content))]
      \o << File(<<"references", "source_excerpt.md">>,
                 Content("source_excerpt.md", <<>>, <<>>, normalized)) >>

\* f.relativePath.replace(/\\/g, "/") of writeZip: a manifest path is built
\* with "/" and holds no backslash, so its segments stay as they are.
ZipEntryName(path) == [k \in 1..Len(path) |-> path[k]]

RECURSIVE ZipEntries(_)
\* The archive writeZip builds (lines 448-451): a later entry of a name
\* replaces an earlier one.
ZipEntries(files) ==
  IF files = <<>> THEN <<>>
  ELSE LET f == files[Len(files)]
       IN  (ZipEntryName(f.relativePath) :> Utf8(f.content))
             @@ ZipEntries(SubSeq(files, 1, Len(files) - 1))

\* Mutant: the loop of writeZip stops one file early.
ZipArchive_DropLast(files) == ZipEntries(SubSeq(files, 1, Len(files) - 1))

\* writeZip's buffer (lines 447-453).
ZipArchive(files) == ZipEntries(files)

NoDir == [exists |-> FALSE, files |-> <<>>]
NoZip == [exists |-> FALSE, entries |-> <<>>]

IdleInv ==
  [pc |-> "idle", via |-> "none", name |-> <<>>, inputExists |-> FALSE,
   doc |-> <<>>, maxChunks |-> defaultMaxChunks, skillName |-> <<>>,
   extracted |-> FALSE, files |-> <<>>, wi |-> 0, code |-> -1,
   error |-> "none", status |-> 0, wrote |-> {}, zipped |-> FALSE,
   downloaded |-> NoZip, uploads |-> FALSE]

RunIdle ==
  /\ inv = [p \in Procs |-> IdleInv]
  /\ outDirs = [s \in Slugs |-> NoDir]
  /\ outZips = [s \in Slugs |-> NoZip]

\* ------------------------------------------------------- the parts at rest
ChunkIdle ==
  /\ cpc = "idle" /\ paragraphs = <<>> /\ maxChunks = 0 /\ blocks = <<>>
  /\ bi = 0 /\ chunks = <<>> /\ current = <<>> /\ currentWords = 0
  /\ reduced = <<>> /\ ri = 0 /\ returned = <<>> /\ clippedChunks = <<>>
  /\ indexRows = <<>>

KeywordsIdle ==
  /\ kpc = "idle" /\ text = <<>> /\ langMode = "auto" /\ tokens = <<>>
  /\ keywords = <<>>

ScoreIdle ==
  /\ spc = "idle"
  /\ item = [keywords |-> <<>>, steps |-> 0, conditions |-> 0]
  /\ baseScore = 0

DepsIdle ==
  /\ dpc = "idle" /\ skillItems = <<>> /\ dependencies = <<>>
  /\ routes = <<>>

StepsIdle ==
  /\ xpc = "idle" /\ lines = <<>> /\ li = 0 /\ out = <<>> /\ steps = <<>>

InitChunk ==
  /\ KeywordsIdle /\ ScoreIdle /\ DepsIdle /\ StepsIdle /\ RunIdle
  /\ cpc = "split"
  /\ paragraphs \in SeqsUpTo(ParagraphChoices, MaxParas)
  /\ maxChunks \in CeilingChoices
  /\ blocks = <<>> /\ bi = 0 /\ chunks = <<>> /\ current = <<>>
  /\ currentWords = 0 /\ reduced = <<>> /\ ri = 0 /\ returned = <<>>
  /\ clippedChunks = <<>> /\ indexRows = <<>>

\* run line 500.
Split ==
  /\ cpc = "split"
  /\ blocks' = splitSemanticBlocks(paragraphs)
  /\ bi' = 1
  /\ cpc' = "pack"
  /\ UNCHANGED <<paragraphs, maxChunks, chunks, current, currentWords,
                 reduced, ri, returned, clippedChunks, indexRows>>
  /\ ChunkOnly

\* One iteration of chunkBlocks' for-of loop (lines 159-171).
PackBlock ==
  /\ cpc = "pack"
  /\ bi <= Len(blocks)
  /\ LET acc == PackOne([chunks |-> chunks, current |-> current,
                         currentWords |-> currentWords], blocks[bi])
     IN  /\ chunks' = acc.chunks
         /\ current' = acc.current
         /\ currentWords' = acc.currentWords
  /\ bi' = bi + 1
  /\ UNCHANGED <<cpc, paragraphs, maxChunks, blocks, reduced, ri, returned,
                 clippedChunks, indexRows>>
  /\ ChunkOnly

\* The flush after the loop and the early return (lines 172-181).
PackFlush ==
  /\ cpc = "pack"
  /\ bi > Len(blocks)
  /\ LET raw == RawChunks([chunks |-> chunks, current |-> current,
                          currentWords |-> currentWords])
     IN  /\ chunks' = raw
         /\ IF FitsCeiling(Len(raw), maxChunks)
            THEN /\ returned' = raw
                 /\ cpc' = "clip"
            ELSE /\ returned' = returned
                 /\ cpc' = "reduce"
  /\ ri' = 0
  /\ reduced' = <<>>
  /\ UNCHANGED <<paragraphs, maxChunks, blocks, bi, current, currentWords,
                 clippedChunks, indexRows>>
  /\ ChunkOnly

\* One iteration of the reduction loop (lines 182-184).  With maxChunks = 0
\* the ratio is Infinity: slice(0, Infinity) is everything and i becomes
\* Infinity, which ends the loop; the model writes that i as Len(chunks).
ReduceStep ==
  /\ cpc = "reduce"
  /\ ri < Len(chunks)
  /\ Len(reduced) < MaxReduced + Len(chunks)
  /\ IF maxChunks = 0
     THEN /\ reduced' = Append(reduced, Flatten(chunks))
          /\ ri' = Len(chunks)
     ELSE LET ratio == Ratio(Len(chunks), maxChunks)
          IN  /\ reduced' = Append(reduced, Group(chunks, ri, ratio))
              /\ ri' = ri + ratio
  /\ UNCHANGED <<cpc, paragraphs, maxChunks, blocks, bi, chunks, current,
                 currentWords, returned, clippedChunks, indexRows>>
  /\ ChunkOnly

\* The loop's exit and the final truncation (line 185).
ReduceReturn ==
  /\ cpc = "reduce"
  /\ ri >= Len(chunks)
  /\ returned' = JsSlice(reduced, 0, maxChunks)
  /\ cpc' = "clip"
  /\ UNCHANGED <<paragraphs, maxChunks, blocks, bi, chunks, current,
                 currentWords, reduced, ri, clippedChunks, indexRows>>
  /\ ChunkOnly

\* run lines 502-506 and the index built from the items (lines 508, 563):
\* the length filter, then NoSemanticContent or one item per kept chunk.
Clip ==
  /\ cpc = "clip"
  /\ LET kept == ClipChunks(returned)
     IN  /\ clippedChunks' = kept
         /\ IF Len(kept) = 0
            THEN /\ cpc' = "NoSemanticContent"
                 /\ indexRows' = indexRows
            ELSE /\ cpc' = "done"
                 /\ indexRows' = buildIndexMd(kept)
  /\ UNCHANGED <<paragraphs, maxChunks, blocks, bi, chunks, current,
                 currentWords, reduced, ri, returned>>
  /\ ChunkOnly

NextChunk ==
  \/ Split
  \/ PackBlock
  \/ PackFlush
  \/ ReduceStep
  \/ ReduceReturn
  \/ Clip

SpecChunk == InitChunk /\ [][NextChunk]_vars

\* chunkBlocks has returned.
ChunkReturned == cpc \in {"clip", "done", "NoSemanticContent"}
\* Lines 500-506 have run to their end, one way or the other.
ChunkFinished == cpc \in {"done", "NoSemanticContent"}

\* --------------------------------------------------------------- keywords
\* The stopword tables of lines 76-93, restricted to the words that can be
\* written in the alphabet: "and", "an", "a" and "we" are in all the tables
\* that list their script, "can" is in STOPWORDS_EN only.
STOPWORDS ==
  { <<"a", "n", "d">>, <<"a", "n">>, <<"a">>, <<ZhWo, ZhMen>> }
STOPWORDS_EN ==
  { <<"a", "n", "d">>, <<"a", "n">>, <<"a">>, <<"c", "a", "n">> }
STOPWORDS_ZH == { <<ZhWo, ZhMen>> }

\* An alternative of a regular expression: a character class repeated at
\* least min times.
LatinRun == [class |-> ClassLatin, min |-> 3]            \* [a-z0-9]{3,}
CJKRun == [class |-> ClassCJK, min |-> 2]                \* [一-龥]{2,}

RECURSIVE RunEnd(_, _, _)
\* The last index of the greedy repetition of class that starts at i
\* (i - 1 when t[i] is not in class).
RunEnd(t, i, class) ==
  IF i <= Len(t) /\ t[i] \in class THEN RunEnd(t, i + 1, class) ELSE i - 1

RECURSIVE MatchAll(_, _, _)
\* String.prototype.match with a global regular expression alts[1]|alts[2]|..:
\* at each position the alternatives are tried in order, each greedy; a
\* match is consumed and the scan goes on after it.
MatchAll(t, i, alts) ==
  IF i > Len(t) THEN <<>>
  ELSE LET hits == { a \in 1..Len(alts) :
                       RunEnd(t, i, alts[a].class) - i + 1 >= alts[a].min }
       IN  IF hits = {} THEN MatchAll(t, i + 1, alts)
           ELSE LET a == CHOOSE x \in hits : \A y \in hits : x <= y
                    e == RunEnd(t, i, alts[a].class)
                IN  <<SubSeq(t, i, e)>> \o MatchAll(t, e + 1, alts)

\* Array.prototype.filter((x) => !stop.has(x)).
DropStopwords(ts, stop) == SelectSeq(ts, LAMBDA x : x \notin stop)

\* (text.match(/class/g) || []).length
CountChars(t, class) == Cardinality({ k \in 1..Len(t) : t[k] \in class })

\* detectLanguage (lines 188-195).
detectLanguage(t) ==
  LET zhCount == CountChars(t, ClassCJK)
      enCount == CountChars(t, ClassLetter)
  IN  IF zhCount = 0 /\ enCount = 0 THEN "auto"
      ELSE IF zhCount >= enCount THEN "zh" ELSE "en"

\* Mutant: the caller's mode is used as it is given.
SelectedLang_AsGiven(t, mode) == mode

\* tokenize's selectedLang (line 198).
SelectedLang(t, mode) == IF mode = "auto" THEN detectLanguage(t) ELSE mode

\* The two matchers of the zh and en branches.
ZhTokens(t) == DropStopwords(MatchAll(t, 1, <<CJKRun>>), STOPWORDS_ZH)
EnTokens(t) ==
  DropStopwords(MatchAll(toLowerCase(t), 1, <<LatinRun>>), STOPWORDS_EN)

\* Mutant: the fallback of the zh branch filters the Latin tokens by the
\* CJK table.
tokenize_WrongTable(t, mode) ==
  LET selectedLang == SelectedLang(t, mode)
  IN  IF selectedLang = "zh"
      THEN IF Len(ZhTokens(t)) > 0 THEN ZhTokens(t)
           ELSE DropStopwords(MatchAll(toLowerCase(t), 1, <<LatinRun>>),
                              STOPWORDS_ZH)
      ELSE IF selectedLang = "en"
      THEN IF Len(EnTokens(t)) > 0 THEN EnTokens(t) ELSE ZhTokens(t)
      ELSE DropStopwords(MatchAll(toLowerCase(t), 1, <<LatinRun, CJKRun>>),
                         STOPWORDS)

\* tokenize (lines 197-215).
tokenize(t, mode) ==
  LET selectedLang == SelectedLang(t, mode)
  IN  IF selectedLang = "zh"
      THEN IF Len(ZhTokens(t)) > 0 THEN ZhTokens(t) ELSE EnTokens(t)
      ELSE IF selectedLang = "en"
      THEN IF Len(EnTokens(t)) > 0 THEN EnTokens(t) ELSE ZhTokens(t)
      ELSE DropStopwords(MatchAll(toLowerCase(t), 1, <<LatinRun, CJKRun>>),
                         STOPWORDS)

RECURSIVE FirstSeen(_, _)
\* The keys of the Map of topKeywords, in insertion order: each token once,
\* at its first appearance.  seen holds the keys already inserted.
FirstSeen(ts, seen) ==
  IF ts = <<>> THEN <<>>
  ELSE IF Head(ts) \in seen THEN FirstSeen(Tail(ts), seen)
  ELSE <<Head(ts)>> \o FirstSeen(Tail(ts), seen \cup {Head(ts)})

\* The value the Map holds for a key: the number of its occurrences.
Freq(ts, key) == Cardinality({ k \in 1..Len(ts) : ts[k] = key })

RECURSIVE SortByFreq(_, _)
\* Array.prototype.sort((a, b) => b[1] - a[1]): descending by count and
\* stable, so equal counts keep their insertion order.
SortByFreq(keys, ts) ==
  IF keys = <<>> THEN <<>>
  ELSE LET top == CHOOSE k \in 1..Len(keys) :
                    /\ \A j \in 1..Len(keys) :
                         Freq(ts, keys[j]) <= Freq(ts, keys[k])
                    /\ \A j \in 1..(k - 1) :
                         Freq(ts, keys[j]) < Freq(ts, keys[k])
           rest == [j \in 1..(Len(keys) - 1) |->
                      IF j < top THEN keys[j] ELSE keys[j + 1]]
       IN  <<keys[top]>> \o SortByFreq(rest, ts)

\* Mutant: the entries are sorted but not cut to the limit.
RankTokens_NoLimit(ts, limit) == SortByFreq(FirstSeen(ts, {}), ts)

\* topKeywords after tokenize (lines 218-225): count, sort, cut to limit.
RankTokens(ts, limit) == JsSlice(SortByFreq(FirstSeen(ts, {}), ts), 0, limit)

\* topKeywords (lines 217-226).
topKeywords(t, limit, mode) == RankTokens(tokenize(t, mode), limit)

\* The k-th three-letter word over a, n, d (k in 0..26); word 5 is "and".
LongLetters == <<"a", "n", "d">>
LongWord(k) ==
  << LongLetters[((k \div 9) % 3) + 1], LongLetters[((k \div 3) % 3) + 1],
     LongLetters[(k % 3) + 1] >>

RECURSIVE LongText(_, _)
\* A text of many words: the words lo..hi, each followed by a space.
LongText(lo, hi) ==
  IF lo > hi THEN <<>> ELSE LongWord(lo) \o <<" ">> \o LongText(lo + 1, hi)

\* Texts of both scripts: a run of ideographs and a Latin word, either one
\* first, with a space between them.
MixedTexts ==
  LET cjk == { <<ZhMen, ZhWo>>, <<ZhWo, ZhMen>>, <<ZhMen, ZhWo, ZhMen, ZhWo>> }
      latin == { <<"c", "c", "c">>, <<"c", "a", "n">>, <<"A", "n", "d">>,
                 <<"c", "7">>, <<"7", "7", "7">> }
  IN  { a \o <<" ">> \o b : a \in cjk, b \in latin }
        \cup { b \o <<" ">> \o a : a \in cjk, b \in latin }

\* The texts of the keyword specification: every text of at most MaxTextLen
\* characters, and texts of up to MaxWords different words, with the first
\* few words said twice.
KeywordTexts ==
  SeqsUpTo(Alphabet, MaxTextLen)
    \cup { LongText(0, n - 1) \o LongText(0, r - 1) :
             n \in 0..MaxWords, r \in 0..MaxRepeats }
    \cup MixedTexts

LangModes == {"auto", "zh", "en"}

InitKeywords ==
  /\ ChunkIdle /\ ScoreIdle /\ DepsIdle /\ StepsIdle /\ RunIdle
  /\ kpc = "tokenize"
  /\ text \in KeywordTexts
  /\ langMode \in LangModes
  /\ tokens = <<>>
  /\ keywords = <<>>

\* topKeywords line 219: the call of tokenize.
Tokenize ==
  /\ kpc = "tokenize"
  /\ tokens' = tokenize(text, langMode)
  /\ kpc' = "rank"
  /\ UNCHANGED <<text, langMode, keywords>>
  /\ KeywordsOnly

\* topKeywords lines 218-225 as run calls it, with limit 12 (line 512).
Rank ==
  /\ kpc = "rank"
  /\ keywords' = RankTokens(tokens, keywordLimit)
  /\ kpc' = "done"
  /\ UNCHANGED <<text, langMode, tokens>>
  /\ KeywordsOnly

NextKeywords ==
  \/ Tokenize
  \/ Rank

SpecKeywords == InitKeywords /\ [][NextKeywords]_vars

\* ------------------------------------------------------------------ score
\* Math.round(a / b) for a >= 0, b > 0: halves go up.
RoundDiv(a, b) == (2 * a + b) \div (2 * b)

\* The elements of an array, as new Set(array) holds them.
ToSet(seq) == { seq[k] : k \in 1..Len(seq) }

\* Mutant: the terms are added up with none of the Math.min caps.
estimateRoutingScore_Uncapped(it, queryTokens) ==
  IF Len(queryTokens) = 0 THEN 60
  ELSE LET kw == ToSet(it.keywords)
           overlap ==
             Cardinality({ k \in 1..Len(queryTokens) : queryTokens[k] \in kw })
       IN  overlap * 8 + RoundDiv(Len(it.keywords) * 25, 12)
             + it.conditions * 4 + it.steps * 3

\* estimateRoutingScore (lines 260-271).  Of the steps and the conditions
\* the code reads the lengths only, which is what the item holds here.
estimateRoutingScore(it, queryTokens) ==
  IF Len(queryTokens) = 0 THEN 60
  ELSE LET kw == ToSet(it.keywords)
           overlap ==
             Cardinality({ k \in 1..Len(queryTokens) : queryTokens[k] \in kw })
           density == Min(25, RoundDiv(Len(it.keywords) * 25, 12))
           conditionBonus == Min(20, it.conditions * 4)
           stepBonus == Min(15, it.steps * 3)
           overlapScore == Min(40, overlap * 8)
       IN  Max(0, Min(100, overlapScore + density + conditionBonus + stepBonus))

\* An item's keywords: topKeywords returns up to 12 different tokens, here
\* the tokens 1..n.
KeywordLists == { [k \in 1..n |-> k] : n \in 0..keywordLimit }

InitScore ==
  /\ ChunkIdle /\ KeywordsIdle /\ DepsIdle /\ StepsIdle /\ RunIdle
  /\ spc = "score"
  /\ item \in [keywords : KeywordLists, steps : 0..stepLimit,
               conditions : 0..conditionLimit]
  /\ baseScore = 0

\* run line 515: the item is scored against its own first five keywords.
Score ==
  /\ spc = "score"
  /\ baseScore' = estimateRoutingScore(item, JsSlice(item.keywords, 0, probeSize))
  /\ spc' = "done"
  /\ UNCHANGED item
  /\ ScoreOnly

NextScore ==
  \/ Score

SpecScore == InitScore /\ [][NextScore]_vars

\* ------------------------------------------------------------------ graph
\* jaccard (lines 273-287) as the pair <<inter, union>>; the score is
\* inter / union, and 0 when union is 0.
JaccardParts(a, b) ==
  LET sa == ToSet(a)
      sb == ToSet(b)
      inter == Cardinality({ x \in sa : x \in sb })
  IN  <<inter, Cardinality(sa) + Cardinality(sb) - inter>>

\* score >= 0.22 (line 297), on the fraction inter / union.
MeetsThreshold(parts) ==
  parts[2] # 0 /\ 100 * parts[1] >= 22 * parts[2]

\* Number(score.toFixed(2)) in hundredths: inter / union to two decimals.
Weight(parts) == RoundDiv(100 * parts[1], parts[2])

\* Mutant: the pair of an item with itself is not skipped.
PairVisited_All(i, j) == TRUE

\* Mutant: each unordered pair is visited once.
PairVisited_Upper(i, j) == i < j

\* The pairs the nested loops of buildDependencies go on with (lines 291-295).
PairVisited(i, j) == i # j

RECURSIVE RawDeps(_, _)
\* The array deps of buildDependencies after the loops (lines 290-305): the
\* pairs in row-major order from the p-th on (p counts from 0).
RawDeps(items, p) ==
  LET n == Len(items)
  IN  IF p >= n * n THEN <<>>
      ELSE LET i == (p \div n) + 1
               j == (p % n) + 1
               parts == JaccardParts(items[i].keywords, items[j].keywords)
           IN  (IF PairVisited(i, j) /\ MeetsThreshold(parts)
                THEN << [from |-> items[i].id, to |-> items[j].id,
                         weight |-> Weight(parts)] >>
                ELSE <<>>) \o RawDeps(items, p + 1)

\* The key of the Map of lines 307-311.
DepKey(d) == <<d.from, d.to>>

\* Array.from(dedup.values()): one entry per key, at the key's first
\* position and with the key's last value.
Dedup(deps) ==
  LET firsts == SelectSeq([k \in 1..Len(deps) |-> k],
                  LAMBDA k : \A j \in 1..(k - 1) : DepKey(deps[j]) # DepKey(deps[k]))
      last(k) == CHOOSE j \in 1..Len(deps) :
                   /\ DepKey(deps[j]) = DepKey(deps[k])
                   /\ \A h \in (j + 1)..Len(deps) : DepKey(deps[h]) # DepKey(deps[k])
  IN  [k \in 1..Len(firsts) |-> deps[last(firsts[k])]]

\* buildDependencies (lines 289-313).
buildDependencies(items) == Dedup(RawDeps(items, 0))

\* buildRoutesJson (lines 424-441): the dependencies member is deps as given.
buildRoutesJson(items, deps) == deps

\* The keyword lists of the items of the graph specification: the runs
\* k_a .. k_b of five tokens, and the empty list.  Their similarities range
\* over 0, 1/5 (below the threshold), 1/4, 1/3, 2/5, 1/2, ... and 1.
GraphTokens == <<"k1", "k2", "k3", "k4", "k5">>
GraphKeywordLists ==
  { SubSeq(GraphTokens, a, b) : a \in 1..Len(GraphTokens), b \in 0..Len(GraphTokens) }

InitDeps ==
  /\ ChunkIdle /\ KeywordsIdle /\ ScoreIdle /\ StepsIdle /\ RunIdle
  /\ dpc = "build"
  /\ \E kws \in SeqsUpTo(GraphKeywordLists, MaxItems) :
       skillItems = [k \in 1..Len(kws) |-> [id |-> ItemId(k - 1), keywords |-> kws[k]]]
  /\ dependencies = <<>>
  /\ routes = <<>>

\* run line 528.
BuildDeps ==
  /\ dpc = "build"
  /\ dependencies' = buildDependencies(skillItems)
  /\ dpc' = "render"
  /\ UNCHANGED <<skillItems, routes>>
  /\ DepsOnly

\* run lines 571-574.
RenderRoutes ==
  /\ dpc = "render"
  /\ routes' = buildRoutesJson(skillItems, dependencies)
  /\ dpc' = "done"
  /\ UNCHANGED <<skillItems, dependencies>>
  /\ DepsOnly

NextDeps ==
  \/ BuildDeps
  \/ RenderRoutes

SpecDeps == InitDeps /\ [][NextDeps]_vars

\* -------------------------------------------------------------------- run
InitRun ==
  /\ ChunkIdle /\ KeywordsIdle /\ ScoreIdle /\ DepsIdle
  /\ StepsIdle /\ RunIdle

\* The invocation has come to its end: the process of a command line has
\* exited, the request of the front-end is answered.
Finished(r) ==
  \/ r.via = "cli" /\ r.pc = "exited"
  \/ r.via = "web" /\ r.pc = "responded"

\* In this specification the invocations run one after another, and they
\* are numbered in the order they start in.
NoneRunning(p) ==
  /\ \A q \in Procs \ {p} : inv[q].pc = "idle" \/ Finished(inv[q])
  /\ \A q \in Procs : q < p => inv[q].pc # "idle"

\* The process ends with an error thrown in run (lines 613-616).
Throw(r, error) == [r EXCEPT !.pc = "exited", !.code = 1, !.error = error]

\* A command line: node index.js --input .. --name .. --max-chunks ..
StartCli(p) ==
  /\ inv[p].pc = "idle"
  /\ NoneRunning(p)
  /\ \E name \in RawNames, doc \in DocChoices, m \in RunCeilings,
        ex \in BOOLEAN :
       inv' = [inv EXCEPT ![p] =
                 [IdleInv EXCEPT !.pc = "checkInputs", !.via = "cli",
                                 !.name = name, !.inputExists = ex,
                                 !.doc = doc, !.maxChunks = m]]
  /\ UNCHANGED <<outDirs, outZips>>
  /\ RunOnly

\* The top-level entries of the output directory that hold the files of the
\* folder of slug s: the folder itself, or for the empty name, where
\* path.resolve gives the output directory itself, the first segments.
TopEntries(s) ==
  IF s = <<>> THEN { f[1] : f \in DOMAIN outDirs[s].files } ELSE {"(folder)"}

\* cleanupOldOutputs (server 63-83) at the start of a request: each entry
\* of the output directory whose modification time is older than the TTL is
\* removed.  The ages are free: gone(s) are the entries of folder s removed,
\* zs the zips removed.
Sweep(gone, zs) ==
  /\ outDirs' =
       [s \in Slugs |->
          IF s = <<>>
          THEN [outDirs[s] EXCEPT
                  !.files = [f \in { g \in DOMAIN outDirs[s].files :
                                       g[1] \notin gone[s] } |->
                               outDirs[s].files[f]]]
          ELSE IF gone[s] # {} THEN NoDir ELSE outDirs[s]]
  /\ outZips' = [s \in Slugs |-> IF s \in zs THEN NoZip ELSE outZips[s]]

\* POST /api/compile up to the start of the compiler (server 118-166): the
\* sweep, the name check (400) and the command line.  The uploads are PDF
\* files that multer has stored, so the compiler finds its inputs.
StartWeb(p) ==
  /\ inv[p].pc = "idle"
  /\ NoneRunning(p)
  /\ \E gone \in [Slugs -> SUBSET {"(folder)", "SKILL.md", "README.md",
                                   "skills", "references"}],
        zs \in SUBSET Slugs :
       /\ \A s \in Slugs :
            gone[s] \subseteq (IF outDirs[s].exists THEN TopEntries(s) ELSE {})
       /\ zs \subseteq { s \in Slugs : outZips[s].exists }
       /\ Sweep(gone, zs)
  /\ \E name \in RawNames, doc \in DocChoices, m \in RunCeilings :
       LET skillName == slugify(name)
           r == [IdleInv EXCEPT !.via = "web", !.doc = doc,
                                !.maxChunks = m, !.uploads = TRUE]
       IN  inv' = [inv EXCEPT ![p] =
                     IF skillName = <<>>
                     THEN [r EXCEPT !.pc = "responded", !.name = name,
                                    !.status = 400, !.error = "InvalidName",
                                    !.uploads = FALSE]
                     ELSE [r EXCEPT !.pc = "checkInputs", !.name = skillName,
                                    !.inputExists = TRUE]]
  /\ RunOnly

\* run lines 474-479.
CheckInputs(p) ==
  /\ inv[p].pc = "checkInputs"
  /\ inv' = [inv EXCEPT ![p] =
               IF inv[p].inputExists THEN [@ EXCEPT !.pc = "mkdir"]
               ELSE Throw(@, "InputNotFound")]
  /\ UNCHANGED <<outDirs, outZips>>
  /\ RunOnly

\* run lines 481-483: the name is sanitized and the folder made.
EnsureOutRoot(p) ==
  /\ inv[p].pc = "mkdir"
  /\ LET skillName == slugify(inv[p].name)
     IN  /\ inv' = [inv EXCEPT ![p].pc = "compile", ![p].skillName = skillName]
         /\ outDirs' = [outDirs EXCEPT ![skillName].exists = TRUE]
  /\ UNCHANGED outZips
  /\ RunOnly

\* run lines 485-593: extraction, blocks, chunks, items, manifest.
Compile(p) ==
  /\ inv[p].pc = "compile"
  /\ LET r == [inv[p] EXCEPT !.extracted = TRUE]
         normalized == r.doc
         clipped == ClipChunks(chunkBlocks(splitSemanticBlocks(normalized),
                                           r.maxChunks))
     IN  inv' = [inv EXCEPT ![p] =
                   IF normalized = <<>> THEN Throw(r, "EmptyExtraction")
                   ELSE IF Len(clipped) = 0 THEN Throw(r, "NoSemanticContent")
                   ELSE [r EXCEPT !.pc = "write", !.wi = 1,
                                  !.files = BuildManifest(r.skillName,
                                              BuildItems(clipped), normalized)]]
  /\ UNCHANGED <<outDirs, outZips>>
  /\ RunOnly

\* One iteration of writePlainFiles (lines 458-462): the folder of the file
\* is made if it is not there, and the file written.
WriteFile(p) ==
  /\ inv[p].pc = "write"
  /\ inv[p].wi <= Len(inv[p].files)
  /\ LET f == inv[p].files[inv[p].wi]
         s == inv[p].skillName
     IN  /\ outDirs' = [outDirs EXCEPT ![s] =
                          [exists |-> TRUE,
                           files |-> (f.relativePath :> Utf8(f.content))
                                       @@ outDirs[s].files]]
         /\ inv' = [inv EXCEPT ![p].wi = @ + 1,
                               ![p].wrote = @ \cup {f.relativePath}]
  /\ UNCHANGED outZips
  /\ RunOnly

\* run lines 597-610: the zip is written and the process exits with 0.
WriteZip(p) ==
  /\ inv[p].pc = "write"
  /\ inv[p].wi > Len(inv[p].files)
  /\ outZips' = [outZips EXCEPT ![inv[p].skillName] =
                   [exists |-> TRUE, entries |-> ZipArchive(inv[p].files)]]
  /\ inv' = [inv EXCEPT ![p].pc = "exited", ![p].code = 0, ![p].zipped = TRUE]
  /\ UNCHANGED outDirs
  /\ RunOnly

\* POST /api/compile after the compiler has ended (server 168-182): the zip
\* is sent, or 500.  The uploads are removed either way.
WebRespond(p) ==
  /\ inv[p].via = "web"
  /\ inv[p].pc = "exited"
  /\ LET zip == outZips[inv[p].name]
     IN  inv' = [inv EXCEPT ![p] =
                   IF inv[p].code # 0
                   THEN [@ EXCEPT !.pc = "responded", !.status = 500,
                                  !.uploads = FALSE]
                   ELSE IF ~zip.exists
                   THEN [@ EXCEPT !.pc = "responded", !.status = 500,
                                  !.error = "SerializationFailure",
                                  !.uploads = FALSE]
                   ELSE [@ EXCEPT !.pc = "responded", !.status = 200,
                                  !.downloaded = zip, !.uploads = FALSE]]
  /\ UNCHANGED <<outDirs, outZips>>
  /\ RunOnly

\* The process stops where it is: it is killed, or a call of fs throws (a
\* full disk under writeFileSync, say) and run().catch exits with 1.  The
\* front-end gets the error from execFile either way.
Crash(p) ==
  /\ inv[p].pc \in {"checkInputs", "mkdir", "compile", "write"}
  /\ inv' = [inv EXCEPT ![p] = Throw(@, "Crashed")]
  /\ UNCHANGED <<outDirs, outZips>>
  /\ RunOnly

NextRun ==
  \E p \in Procs :
    \/ StartCli(p)
    \/ StartWeb(p)
    \/ CheckInputs(p)
    \/ EnsureOutRoot(p)
    \/ Compile(p)
    \/ WriteFile(p)
    \/ WriteZip(p)
    \/ WebRespond(p)
    \/ Crash(p)

Spec == InitRun /\ [][NextRun]_vars

\* -------------------------------------------------------- concurrent runs
\* Two invocations of one sanitized name at the same time: nothing in run
\* or in the front-end keeps a second process from starting while the first
\* is at work, and the steps of the two interleave freely.  The names and
\* the documents of these invocations:
RaceNames == { <<"A", "!", "a">>, <<" ", "a", "-", "a">> }
RaceDocs == { <<P139>>, <<P140, P30, P140>> }

\* A command line, started whatever the other invocations are doing.
StartCliConcurrent(p) ==
  /\ inv[p].pc = "idle"
  /\ \E name \in RaceNames, doc \in RaceDocs :
       inv' = [inv EXCEPT ![p] =
                 [IdleInv EXCEPT !.pc = "checkInputs", !.via = "cli",
                                 !.name = name, !.inputExists = TRUE,
                                 !.doc = doc]]
  /\ UNCHANGED <<outDirs, outZips>>
  /\ RunOnly

\* POST /api/compile up to the start of the compiler (server 118-166),
\* started whatever the other invocations are doing.  The output directory
\* was empty when the first of them started and what they write is younger
\* than the TTL, so the sweep removes nothing.
StartWebConcurrent(p) ==
  /\ inv[p].pc = "idle"
  /\ \E name \in RaceNames, doc \in RaceDocs :
       inv' = [inv EXCEPT ![p] =
                 [IdleInv EXCEPT !.pc = "checkInputs", !.via = "web",
                                 !.name = slugify(name), !.inputExists = TRUE,
                                 !.doc = doc, !.uploads = TRUE]]
  /\ UNCHANGED <<outDirs, outZips>>
  /\ RunOnly

NextConcurrent ==
  \E p \in Procs :
    \/ StartCliConcurrent(p)
    \/ StartWebConcurrent(p)
    \/ CheckInputs(p)
    \/ EnsureOutRoot(p)
    \/ Compile(p)
    \/ WriteFile(p)
    \/ WriteZip(p)
    \/ WebRespond(p)

SpecConcurrent == InitRun /\ [][NextConcurrent]_vars

\* ------------------------------------------------------------------ steps
\* extractSteps (index.js 228-244) and STEP_PATTERNS (108-111).  A line is a
\* sequence of characters; the characters of the patterns' classes:
WhiteSpace == {" "}                              \* \s
DigitChars == {"1", "2"}                         \* \d, 0-9
OrdinalSeps == {".", ")", "U+3001"}              \* [.)、]
Bullets == {"-", "*"}                            \* [-*]
ZhDi == "U+7B2C"                                 \* 第
ZhBu == "U+6B65"                                 \* 步
ZhYi == "U+4E00"                                 \* 一
StepNumerals == {ZhYi} \cup DigitChars           \* [一二三四五六七八九十0-9]
StepSeps == {"U+FF1A", ":", "U+3001"}            \* [：:、]

RECURSIVE SkipWhile(_, _, _)
\* The index after the longest run of class characters that starts at i.
SkipWhile(line, i, class) ==
  IF i <= Len(line) /\ line[i] \in class
  THEN SkipWhile(line, i + 1, class) ELSE i

NoMatch == [matched |-> FALSE, m2 |-> <<>>]
Matched(rest) == [matched |-> TRUE, m2 |-> rest]

\* \s+(.+) (lo = 1) or \s*(.+)$ (lo = 0) from index from: the whitespace
\* run is taken whole and (.+) is the rest of the line; where the run goes
\* to the end of the line it gives its last character back to (.+).
WsThenRest(line, from, lo) ==
  LET k == SkipWhile(line, from, WhiteSpace)
  IN  IF k <= Len(line)
      THEN (IF k - from >= lo THEN Matched(SubSeq(line, k, Len(line)))
            ELSE NoMatch)
      ELSE (IF k - from >= lo + 1 THEN Matched(<<line[Len(line)]>>)
            ELSE NoMatch)

\* line.match(/^\s*(\d+[.)、]|[-*])\s+(.+)/)
MatchOrdinal(line) ==
  LET i == SkipWhile(line, 1, WhiteSpace)
      j == SkipWhile(line, i, DigitChars)
      markerEnd ==
        IF j > i /\ j <= Len(line) /\ line[j] \in OrdinalSeps THEN j + 1
        ELSE IF i <= Len(line) /\ line[i] \in Bullets THEN i + 1
        ELSE 0
  IN  IF markerEnd = 0 THEN NoMatch ELSE WsThenRest(line, markerEnd, 1)

\* line.match(/^\s*(第[一二三四五六七八九十0-9]+步)\s*[：:、]?\s*(.+)$/)
MatchStepN(line) ==
  LET i == SkipWhile(line, 1, WhiteSpace)
      j == SkipWhile(line, i + 1, StepNumerals)
      k == SkipWhile(line, j + 1, WhiteSpace)
      withSep == WsThenRest(line, k + 1, 0)
  IN  IF ~(i <= Len(line) /\ line[i] = ZhDi) THEN NoMatch
      ELSE IF ~(j > i + 1 /\ j <= Len(line) /\ line[j] = ZhBu) THEN NoMatch
      ELSE IF k <= Len(line) /\ line[k] \in StepSeps
      THEN (IF withSep.matched THEN withSep
            ELSE Matched(SubSeq(line, k, Len(line))))
      ELSE WsThenRest(line, j + 1, 0)

\* The inner loop over STEP_PATTERNS with its break: the first pattern that
\* matches the line.
FirstMatch(line) ==
  IF MatchOrdinal(line).matched THEN MatchOrdinal(line) ELSE MatchStepN(line)

\* Mutant: values of exactly 5 characters are dropped too.
KeepsStep_Long(val) == val # <<>> /\ Len(val) > 5

\* if (val && val.length > 4)
KeepsStep(val) == val # <<>> /\ Len(val) > 4

\* What one line adds to out.
Pushed(line) ==
  LET m == FirstMatch(line)
      val == Trim(m.m2)
  IN  IF m.matched /\ KeepsStep(val) THEN <<val>> ELSE <<>>

\* The lines of the input.
OpenTheValve ==
  <<"O", "p", "e", "n", " ", "t", "h", "e", " ", "v", "a", "l", "v", "e">>
ValveLine == <<"1", ".", " ">> \o OpenTheValve
FillerLines ==
  { <<"-", " ", "f", "i", "l", "l", "e", "r">>, <<"p", "l", "a", "i", "n">> }
Leads == { <<>>, <<" ">> }
Markers ==
  { <<>>, <<"1", ".">>, <<"1", "2", ")">>, <<"1", "U+3001">>, <<"*">>,
    <<"1">>, <<"a", ".">>, <<ZhDi, ZhYi, ZhBu>>, <<ZhDi, "1", ZhYi, ZhBu>>,
    <<ZhDi, ZhBu>> }
Gaps == { <<>>, <<" ">>, <<" ", " ">>, <<":">>, <<" ", "U+FF1A", " ">> }
Remainders ==
  { <<>>, <<"a", "b", "c", "d">>, <<"a", "b", "c", "d", "e">>,
    <<"a", "b", "c", "d", " ">>, <<":", "a", "b", "c", "d">>,
    <<"1", ".", " ", "a", "b", "c", "d", "e">> }
LineChoices ==
  { l \o m \o g \o r : l \in Leads, m \in Markers, g \in Gaps,
                      r \in Remainders }

RECURSIVE Repeat(_, _)
Repeat(x, n) == IF n = 0 THEN <<>> ELSE <<x>> \o Repeat(x, n - 1)

\* A text: some filler lines, any one line, the valve line, a filler line.
InitSteps ==
  /\ ChunkIdle /\ KeywordsIdle /\ ScoreIdle /\ DepsIdle /\ RunIdle
  /\ xpc = "scan"
  /\ \E n \in 0..MaxStepLines, f \in FillerLines, x \in LineChoices :
       lines = Repeat(f, n) \o <<x, ValveLine, f>>
  /\ li = 1 /\ out = <<>> /\ steps = <<>>

\* One iteration of the for-of loop over the lines (lines 231-242).
ScanLine ==
  /\ xpc = "scan"
  /\ li <= Len(lines)
  /\ out' = out \o Pushed(lines[li])
  /\ li' = li + 1
  /\ UNCHANGED <<xpc, lines, steps>>
  /\ StepsOnly

\* return out.slice(0, 8)
StepsReturn ==
  /\ xpc = "scan"
  /\ li > Len(lines)
  /\ steps' = JsSlice(out, 0, stepLimit)
  /\ xpc' = "done"
  /\ UNCHANGED <<lines, li, out>>
  /\ StepsOnly

NextSteps ==
  \/ ScanLine
  \/ StepsReturn

SpecSteps == InitSteps /\ [][NextSteps]_vars

\* ================================================================= claims

\* ----------------------------------------------------------------- C1
\* C1: for a positive maxChunks, chunkBlocks returns at most maxChunks
\* chunks, and so run keeps at most maxChunks chunks and builds at most
\* maxChunks items (index rows).
C1_ChunkCeiling ==
  (ChunkReturned /\ maxChunks >= 1) =>
    /\ Len(returned) <= maxChunks
    /\ Len(clippedChunks) <= maxChunks
    /\ Len(indexRows) <= maxChunks

\* The reduction has run: more raw chunks than the ceiling, grouped down to
\* exactly the ceiling, and every group became an item.
C1_Witness ==
  /\ cpc = "done"
  /\ maxChunks = 2
  /\ Len(chunks) = 4
  /\ Len(reduced) = 2
  /\ Len(indexRows) = 2

\* ----------------------------------------------------------------- C8
\* The case of C8: two paragraphs of at least 50 non-space characters each,
\* compiled with chunkCeiling = 24.
C8_Case ==
  /\ ChunkFinished
  /\ maxChunks = defaultMaxChunks
  /\ Len(paragraphs) = 2
  /\ \A k \in 1..2 : paragraphs[k].chars >= 50

\* C8 as stated: 1 chunk and 1 index row when the combined word count is
\* at most 280, 2 chunks and 2 rows otherwise.
C8_Original ==
  C8_Case =>
    LET n == IF paragraphs[1].words + paragraphs[2].words <= targetMaxWords
             THEN 1 ELSE 2
    IN  /\ cpc = "done"
        /\ Len(returned) = n
        /\ Len(indexRows) = n

\* C8 amended: 1 chunk when the first paragraph has fewer than 140 words and
\* the combined word count is at most 280, 2 chunks (one per paragraph)
\* otherwise; the compile succeeds and skills/index.md has one row per chunk
\* of more than 80 non-space characters, which is at least one row.
C8_TwoParagraphs ==
  C8_Case =>
    LET w1   == paragraphs[1].words
        w2   == paragraphs[2].words
        one  == w1 < targetMinWords /\ w1 + w2 <= targetMaxWords
        long == { k \in 1..2 : paragraphs[k].chars > clipChars }
    IN  /\ cpc = "done"
        /\ returned = IF one THEN << paragraphs >>
                      ELSE << <<paragraphs[1]>>, <<paragraphs[2]>> >>
        /\ Len(indexRows) = IF one THEN 1 ELSE Cardinality(long)
        /\ Len(indexRows) >= 1

\* Two paragraphs of 280 words together, the first of 140: two chunks, two
\* index rows.
C8_Witness ==
  /\ C8_Case
  /\ paragraphs[1].words = targetMinWords
  /\ paragraphs[2].words = targetMinWords
  /\ Len(returned) = 2
  /\ Len(indexRows) = 2

\* ----------------------------------------------------------------- C4
IsCJKToken(tok) == \A k \in 1..Len(tok) : tok[k] \in ClassCJK
IsLatinToken(tok) == \A k \in 1..Len(tok) : tok[k] \in ClassLatin

\* C4: in every language mode the keyword list has at most 12 entries, no
\* entry twice, and no entry in the stopword table of the branch that
\* produced it: the CJK table for a CJK token and the English table for a
\* Latin token in the zh and en branches (fallbacks included), the combined
\* table in the ambiguous branch.
C4_KeywordBound ==
  kpc = "done" =>
    /\ Len(keywords) <= 12
    /\ \A j, k \in 1..Len(keywords) : j # k => keywords[j] # keywords[k]
    /\ \A k \in 1..Len(keywords) :
         /\ IsCJKToken(keywords[k]) \/ IsLatinToken(keywords[k])
         /\ IF SelectedLang(text, langMode) = "auto"
            THEN keywords[k] \notin STOPWORDS
            ELSE /\ IsCJKToken(keywords[k]) => keywords[k] \notin STOPWORDS_ZH
                 /\ IsLatinToken(keywords[k]) => keywords[k] \notin STOPWORDS_EN

\* zh mode on a Latin text of 14 words, "and" among them and two said
\* twice: the fallback branch runs, the stopword is dropped, 13 different
\* tokens are left and the list is cut to 12.
C4_Witness ==
  /\ kpc = "done"
  /\ langMode = "zh"
  /\ CountChars(text, ClassCJK) = 0
  /\ \E k \in 1..(Len(text) - 2) : SubSeq(text, k, k + 2) = <<"a", "n", "d">>
  /\ Len(tokens) = 15
  /\ Len(FirstSeen(tokens, {})) = 13
  /\ Len(keywords) = 12

\* ----------------------------------------------------------------- C5
\* C5: whatever the numbers of keywords (0..12), steps (0..8) and conditions
\* (0..8) of an item, its baseScore is an integer from 0 to 100.
C5_ScoreBound == spc = "done" => baseScore \in 0..100

\* The fullest item: 12 keywords, 8 steps, 8 conditions, every term at its
\* cap and the score at 100.
C5_Witness ==
  /\ spc = "done"
  /\ Len(item.keywords) = 12 /\ item.steps = 8 /\ item.conditions = 8
  /\ baseScore = 100

\* ----------------------------------------------------------------- C6
\* C6: every edge buildDependencies emits joins two different items, has a
\* weight from 0.22 to 1.00 (22 to 100 hundredths), and no two edges have
\* the same ordered pair (from, to).
C6_EdgeBound ==
  dpc \in {"render", "done"} =>
    /\ \A k \in 1..Len(dependencies) :
         /\ dependencies[k].from # dependencies[k].to
         /\ dependencies[k].weight >= 22
         /\ dependencies[k].weight <= 100
    /\ \A j, k \in 1..Len(dependencies) :
         j # k => DepKey(dependencies[j]) # DepKey(dependencies[k])

\* Three items: two with the same keywords (weight 1.00), the third sharing
\* one token of five with them (0.20, no edge).
C6_Witness ==
  /\ dpc = "render"
  /\ Len(skillItems) = 3
  /\ skillItems[1].keywords = skillItems[2].keywords
  /\ Len(skillItems[1].keywords) = 1
  /\ JaccardParts(skillItems[1].keywords, skillItems[3].keywords) = <<1, 5>>
  /\ Len(dependencies) = 2
  /\ \E k \in 1..2 : dependencies[k].weight = 100

\* ----------------------------------------------------------------- C7
HasEdge(i, j) ==
  \E k \in 1..Len(routes) : routes[k].from = i /\ routes[k].to = j
EdgeWeight(i, j) ==
  (CHOOSE d \in ToSet(routes) : d.from = i /\ d.to = j).weight

\* C7: for two different items whose keyword sets have a Jaccard similarity
\* of at least 0.22, routes.json holds the edge in both directions with one
\* weight; and an edge is there in one direction iff it is in the other.
C7_BothDirections ==
  dpc = "done" =>
    \A i, j \in 1..Len(skillItems) :
      i # j =>
        /\ MeetsThreshold(JaccardParts(skillItems[i].keywords,
                                        skillItems[j].keywords))
             => /\ HasEdge(skillItems[i].id, skillItems[j].id)
                /\ HasEdge(skillItems[j].id, skillItems[i].id)
                /\ EdgeWeight(skillItems[i].id, skillItems[j].id)
                     = EdgeWeight(skillItems[j].id, skillItems[i].id)
        /\ HasEdge(skillItems[i].id, skillItems[j].id)
             <=> HasEdge(skillItems[j].id, skillItems[i].id)

\* Two items sharing one token of four (0.25): both edges in routes.json.
C7_Witness ==
  /\ dpc = "done"
  /\ Len(skillItems) = 2
  /\ JaccardParts(skillItems[1].keywords, skillItems[2].keywords) = <<1, 4>>
  /\ Len(routes) = 2
  /\ routes[1].weight = 25 /\ routes[2].weight = 25

\* ----------------------------------------------------------------- C2
\* C2: at the step that ends an invocation with success, every relative
\* path of its manifest is in the folder and in the zip of its skill name,
\* and the two hold the same bytes, those of the manifest's content.
C2_ManifestParity ==
  [][ \A p \in Procs :
        (inv[p].code # 0 /\ inv'[p].code = 0) =>
          LET s == inv'[p].skillName
          IN  /\ outDirs'[s].exists
              /\ outZips'[s].exists
              /\ \A k \in 1..Len(inv'[p].files) :
                   LET f == inv'[p].files[k]
                   IN  /\ f.relativePath \in DOMAIN outDirs'[s].files
                       /\ ZipEntryName(f.relativePath) \in DOMAIN outZips'[s].entries
                       /\ outDirs'[s].files[f.relativePath]
                            = outZips'[s].entries[ZipEntryName(f.relativePath)]
                       /\ outDirs'[s].files[f.relativePath] = Utf8(f.content) ]_vars

\* The second invocation of a name has succeeded with a manifest of eight
\* files (two items) over the folder and the zip the first one left.
C2_Witness ==
  \E p, q \in Procs :
    /\ p # q
    /\ inv[p].code = 0 /\ inv[q].code = 0
    /\ inv[p].skillName = inv[q].skillName
    /\ Len(inv[p].files) = 8 /\ Len(inv[q].files) = 7
    /\ inv[p].zipped
    /\ DOMAIN outZips[inv[p].skillName].entries
         = { inv[p].files[k].relativePath : k \in 1..8 }

\* ----------------------------------------------------------------- C9
\* The case of C9: the invocation has extracted a normalized text that is
\* not empty and has no paragraph of at least 40 non-space characters.
C9_Case(r) ==
  /\ r.extracted
  /\ r.doc # <<>>
  /\ \A k \in 1..Len(r.doc) : r.doc[k].chars < 40

\* C9: such an invocation ends with the NoSemanticContent error (exit code
\* 1, and 500 from the front-end), and it has written no file of the
\* manifest and no zip.
C9_NoSemanticContent ==
  \A p \in Procs :
    C9_Case(inv[p]) =>
      /\ inv[p].pc \in {"exited", "responded"}
      /\ inv[p].code = 1
      /\ inv[p].error = "NoSemanticContent"
      /\ inv[p].wrote = {}
      /\ ~inv[p].zipped
      /\ inv[p].pc = "responded" => inv[p].status = 500

\* A request to the front-end with three paragraphs of 30 characters has
\* been answered.
C9_Witness ==
  \E p \in Procs :
    /\ C9_Case(inv[p])
    /\ Len(inv[p].doc) = 3
    /\ inv[p].via = "web"
    /\ inv[p].pc = "responded"
    /\ inv[p].error = "NoSemanticContent"

\* ---------------------------------------------------------------- C10
\* C10 as stated, for an invocation that has no other fault (its input
\* exists and its text gives at least one chunk): when the sanitized skill
\* name is empty it ends with the InvalidName error and has written
\* nothing, no file and no zip.
C10_Original ==
  \A p \in Procs :
    ( /\ Finished(inv[p])
      /\ slugify(inv[p].name) = <<>>
      /\ inv[p].via = "cli" => inv[p].inputExists
      /\ Len(ClipChunks(chunkBlocks(splitSemanticBlocks(inv[p].doc),
                                    inv[p].maxChunks))) > 0 )
    => /\ inv[p].error = "InvalidName"
       /\ inv[p].wrote = {}
       /\ ~inv[p].zipped


\* ----------------------------------------------------------------- C11
\* The places a line splits at as the ordinal/bullet pattern reads it:
\* whitespace before i, a bullet or digits and a separator from i to j, and
\* whitespace after j.
C11_IsOrdinalMarker(line, i, j) ==
  \/ j = i /\ line[i] \in Bullets
  \/ /\ j > i /\ line[j] \in OrdinalSeps
     /\ \A k \in i..(j - 1) : line[k] \in DigitChars

C11_OrdinalSplits(line) ==
  { ij \in (1..Len(line)) \X (1..Len(line)) :
      /\ ij[1] <= ij[2] /\ ij[2] < Len(line)
      /\ \A k \in 1..(ij[1] - 1) : line[k] \in WhiteSpace
      /\ C11_IsOrdinalMarker(line, ij[1], ij[2])
      /\ line[ij[2] + 1] \in WhiteSpace }

\* The places a line splits at as the Step-N pattern reads it: whitespace
\* before i, the marker from i to j.
C11_StepNSplits(line) ==
  { ij \in (1..Len(line)) \X (1..Len(line)) :
      /\ ij[1] + 1 < ij[2]
      /\ \A k \in 1..(ij[1] - 1) : line[k] \in WhiteSpace
      /\ line[ij[1]] = ZhDi /\ line[ij[2]] = ZhBu
      /\ \A k \in (ij[1] + 1)..(ij[2] - 1) : line[k] \in StepNumerals }

\* What follows a Step-N marker, less one separator and the whitespace
\* around it.
C11_AfterStepN(rest) ==
  LET a == TrimLeft(rest)
      b == IF a # <<>> /\ Head(a) \in StepSeps THEN Tail(a) ELSE a
  IN  Trim(b)

\* The trimmed remainders of a line: of the ordinal/bullet pattern where it
\* applies, and of the Step-N pattern otherwise.
C11_Remainders(line) ==
  IF C11_OrdinalSplits(line) # {}
  THEN { Trim(SubSeq(line, ij[2] + 1, Len(line))) :
           ij \in C11_OrdinalSplits(line) }
  ELSE { C11_AfterStepN(SubSeq(line, ij[2] + 1, Len(line))) :
           ij \in C11_StepNSplits(line) }

C11_Qualifying(line) == { r \in C11_Remainders(line) : Len(r) >= 5 }

RECURSIVE C11_Expected(_)
\* The remainders of the qualifying lines, in document order.
C11_Expected(ls) ==
  IF ls = <<>> THEN <<>>
  ELSE (IF C11_Qualifying(Head(ls)) # {}
        THEN <<CHOOSE r \in C11_Qualifying(Head(ls)) : TRUE>> ELSE <<>>)
       \o C11_Expected(Tail(ls))

\* C11: extractSteps returns, in document order, the trimmed remainders of
\* the first 8 lines that match a step pattern (ordinal or bullet marker
\* first, then the Step-N marker) with a remainder of at least 5
\* characters; and the line "1. Open the valve" puts "Open the valve" into
\* the steps whenever fewer than 8 qualifying lines come before it.
C11_StepsInOrder ==
  xpc = "done" =>
    /\ \A n \in 1..Len(lines) : Cardinality(C11_Qualifying(lines[n])) <= 1
    /\ steps = SubSeq(C11_Expected(lines), 1,
                      Min(8, Len(C11_Expected(lines))))
    /\ \A n \in 1..Len(lines) :
         ( /\ lines[n] = ValveLine
           /\ Len(C11_Expected(SubSeq(lines, 1, n - 1))) < 8 )
         => \E k \in 1..Len(steps) : steps[k] = OpenTheValve

\* More than 8 lines qualify, one of them by the Step-N pattern, and the
\* valve line is among the first 8.
C11_Witness ==
  /\ xpc = "done"
  /\ Len(out) > 8 /\ Len(steps) = 8
  /\ \E k \in 1..Len(steps) : steps[k] = OpenTheValve
  /\ \E n \in 1..Len(lines) :
       /\ MatchStepN(lines[n]).matched
       /\ Pushed(lines[n]) # <<>>


\* ----------------------------------------------------------------- C12
\* C12: for a positive maxChunks, chunkBlocks drops nothing: the returned
\* chunks, read in order, are the input blocks in their order, each once;
\* and when there are more raw chunks than maxChunks the reduction loop
\* pushes at most maxChunks groups, so that slice(0, maxChunks) returns all
\* of them.
C12_NothingDropped ==
  (ChunkReturned /\ maxChunks >= 1) =>
    /\ Flatten(returned) = blocks
    /\ Len(chunks) > maxChunks =>
         /\ Len(reduced) <= maxChunks
         /\ returned = reduced
         /\ Flatten(reduced) = Flatten(chunks)

\* Three raw chunks under a ceiling of 2 are grouped by a ratio of 2 into
\* two groups, and both are returned.
C12_Witness ==
  /\ ChunkReturned
  /\ maxChunks = 2
  /\ Len(chunks) = 3
  /\ Len(reduced) = 2
  /\ Len(returned) = 2


\* ----------------------------------------------------------------- C13
\* The tokens of one pass over the lower-cased text for runs of either
\* script, less the combined stopwords.
C13_OnePass(t) ==
  DropStopwords(MatchAll(toLowerCase(t), 1, <<LatinRun, CJKRun>>), STOPWORDS)

C13_CJKTokens(t) == DropStopwords(MatchAll(t, 1, <<CJKRun>>), STOPWORDS_ZH)
C13_LatinTokens(t) ==
  DropStopwords(MatchAll(toLowerCase(t), 1, <<LatinRun>>), STOPWORDS_EN)

\* tokenize has returned to topKeywords, which was called in auto mode.
C13_Case == kpc \in {"rank", "done"} /\ langMode = "auto"

\* C13 as stated: in auto mode the tokens are those of the one pass for
\* both scripts, filtered by the combined stopword set, for every text.
C13_Original == C13_Case => tokens = C13_OnePass(text)

\* C13, corrected: in auto mode the tokens are those of the one pass for
\* both scripts, filtered by the combined stopword set, only for a text
\* with no ideograph and no Latin letter; for a text with at least as many
\* ideographs as Latin letters they are the CJK runs less the CJK stopwords
\* (the Latin runs less the English stopwords if there are none), and for a
\* text with more Latin letters the other way round.
C13_AutoResolves ==
  C13_Case =>
    LET zhCount == CountChars(text, ClassCJK)
        enCount == CountChars(text, ClassLetter)
        cjk == C13_CJKTokens(text)
        latin == C13_LatinTokens(text)
    IN  tokens = IF zhCount = 0 /\ enCount = 0 THEN C13_OnePass(text)
                 ELSE IF zhCount >= enCount
                 THEN (IF cjk # <<>> THEN cjk ELSE latin)
                 ELSE (IF latin # <<>> THEN latin ELSE cjk)

\* A text of both scripts in auto mode: one pass for both would find a run
\* of each script, and the tokens are the runs of one script alone.
C13_Witness ==
  /\ C13_Case
  /\ \E k \in 1..Len(C13_OnePass(text)) : IsCJKToken(C13_OnePass(text)[k])
  /\ \E k \in 1..Len(C13_OnePass(text)) : IsLatinToken(C13_OnePass(text)[k])
  /\ tokens # <<>>
  /\ \/ \A k \in 1..Len(tokens) : IsCJKToken(tokens[k])
     \/ \A k \in 1..Len(tokens) : IsLatinToken(tokens[k])


\* ----------------------------------------------------------------- C14
\* The invocation has stopped before it finished writing the manifest to
\* the folder.
C14_StoppedEarly(r) ==
  /\ r.pc = "exited"
  /\ r.code # 0
  /\ r.wi <= Len(r.files)

\* C14 as stated: at the step an invocation stops before it has finished
\* writing the manifest, there is no zip at its zip path, the zip of its
\* sanitized name, whatever invocations came before it.
C14_Original ==
  [][ \A p \in Procs :
        (inv[p].pc # "exited" /\ C14_StoppedEarly(inv'[p])) =>
          ~outZips'[slugify(inv'[p].name)].exists ]_vars


\* ----------------------------------------------------------------- C15
\* The folder holds every file of the manifest of invocation r, with the
\* content r gave it.
C15_FolderHolds(dir, r) ==
  \A k \in 1..Len(r.files) :
    /\ r.files[k].relativePath \in DOMAIN dir.files
    /\ dir.files[r.files[k].relativePath] = Utf8(r.files[k].content)

\* Both invocations have succeeded and come to their end, under one
\* sanitized name.
C15_BothFinished ==
  /\ \A p \in Procs : Finished(inv[p]) /\ inv[p].code = 0
  /\ \A p, q \in Procs : inv[p].skillName = inv[q].skillName

\* C15 as stated: once two concurrent invocations of one name have
\* finished, the folder holds the complete output of one of them (each of
\* its files, as that invocation wrote it), the zip holds the complete
\* output of one of them, and the zip a request has downloaded is the zip
\* of its own compile.
C15_Original ==
  C15_BothFinished =>
    LET s == inv[CHOOSE p \in Procs : TRUE].skillName
    IN  /\ \E q \in Procs : C15_FolderHolds(outDirs[s], inv[q])
        /\ \E q \in Procs : outZips[s].entries = ZipArchive(inv[q].files)
        /\ \A p \in Procs :
             inv[p].status = 200 =>
               inv[p].downloaded.entries = ZipArchive(inv[p].files)


\* ----------------------------------------------------------------- C16
\* C16 as stated, for the blocks of a text that has at least one and every
\* maxChunks, zero and negative included: each iteration of the reduction
\* loop brings its index nearer to the end of the raw chunk list, so that
\* the loop comes to its end.
C16_Original ==
  [][ (cpc = "reduce" /\ cpc' = "reduce" /\ blocks # <<>>) =>
        Len(chunks') - ri' < Len(chunks) - ri ]_vars

====
